---- MODULE Spec2Model ----
(***************************************************************************)
(* save-to-mega: main.py.  One process hosts the module-level singletons   *)
(* _MEGA_CLIENT and _ERROR_REPORTING_CLIENT; the hosting platform runs     *)
(* invocations of upload_file_by_url_to_mega on the process's threads,     *)
(* one after another and possibly interleaved.  Every outbound call        *)
(* (HTTP GET, tempfile, GCS blob read, Mega API) is a step whose outcome   *)
(* the environment chooses.                                                *)
(***************************************************************************)
EXTENDS Naturals, Sequences, FiniteSets

\* ---------------------------------------------------------------- bounds
\* Invocations started in the process's lifetime.
MaxInvocations == 2

\* Threads of the process that run invocations.
Threads == {"t1", "t2"}

\* Names tempfile may give a temporary file, and HTTP response bodies.
TmpNames == {"tmpA", "tmpB"}
Bodies == {"b1", "b2"}

\* ------------------------------------------------------------ JSON values
\* A decoded payload: its JSON type, the members `k in data` is true of
\* (keys of an object, elements of a list, substrings of a string), and the
\* values of the url (its path, as segments) and folder members.
NoValue == [type |-> "none", has |-> {}, url |-> <<>>, folder |-> ""]

Payloads ==
  { [type |-> "object", has |-> {"url", "folder"}, url |-> <<"img", "pic.jpg">>, folder |-> "albums"],
    [type |-> "object", has |-> {"url"},           url |-> <<"pic.jpg">>,        folder |-> ""],
    [type |-> "object", has |-> {"folder"},        url |-> <<>>,                 folder |-> "albums"],
    [type |-> "list",   has |-> {},                url |-> <<>>,                 folder |-> ""],
    [type |-> "list",   has |-> {"url"},           url |-> <<>>,                 folder |-> ""],
    [type |-> "string", has |-> {},                url |-> <<>>,                 folder |-> ""],
    [type |-> "string", has |-> {"url"},           url |-> <<>>,                 folder |-> ""],
    [type |-> "number", has |-> {},                url |-> <<>>,                 folder |-> ""] }

\* The trigger event: without a data member (or not subscriptable), with a
\* null data, with data that does not decode to JSON, or carrying a payload.
Events ==
  { [kind |-> k, value |-> NoValue] : k \in {"nodata", "null", "undecodable"} }
    \cup { [kind |-> "json", value |-> p] : p \in Payloads }

\* Python's `k in data`: membership for object, list and string; a
\* TypeError for any other JSON value.
Contains(k, data) ==
  IF data.type \in {"object", "list", "string"}
  THEN IF k \in data.has THEN "yes" ELSE "no"
  ELSE "TypeError"

\* Python's data[k] with a string k: the member of an object; a TypeError
\* for a list or a string.
Subscriptable(data) == data.type = "object"

\* os.path.basename(urlparse(url).path): the last segment of the path.
Basename(path) == IF Len(path) = 0 THEN "" ELSE path[Len(path)]

\* ------------------------------------------------------------------ state
VARIABLES
  MEGA_CLIENT,             \* _MEGA_CLIENT: 0 for None, else an index of megaObjects
  megaObjects,             \* the Mega() objects constructed: TRUE when logged in
  ERROR_REPORTING_CLIENT,  \* _ERROR_REPORTING_CLIENT: 0 for None, else the object
  erObjects,               \* error_reporting.Client() objects constructed
  varsLoads,               \* completed _get_vars_dict() calls
  logins,                  \* successful login() calls
  files,                   \* the temporary directory: name -> content
  started,                 \* invocations started
  pc,                      \* each thread's position in the handler
  loc,                     \* each thread's local variables
  obs                      \* what each thread's current invocation has done

vars == << MEGA_CLIENT, megaObjects, ERROR_REPORTING_CLIENT, erObjects,
           varsLoads, logins, files, started, pc, loc, obs >>

globals == << MEGA_CLIENT, megaObjects, ERROR_REPORTING_CLIENT, erObjects,
              varsLoads, logins, files >>

megaVars == << MEGA_CLIENT, megaObjects, varsLoads, logins >>

erVars == << ERROR_REPORTING_CLIENT, erObjects >>

NoFile == "absent"
Unflushed == "empty"

InitLoc ==
  [event |-> [kind |-> "nodata", value |-> NoValue], data |-> NoValue,
   name |-> "", body |-> "none", fh |-> "none", path |-> "",
   folder |-> "unset", site |-> "none", client |-> 0, file_on_mega |-> "unset"]

InitObs ==
  [outcome |-> "none", reports |-> 0, ops |-> {}, status |-> 0,
   lookup |-> "none", target |-> "none", renamed |-> "none",
   warned |-> FALSE, raised |-> FALSE, loggedOutOp |-> FALSE]

Init ==
  /\ MEGA_CLIENT = 0
  /\ megaObjects = <<>>
  /\ ERROR_REPORTING_CLIENT = 0
  /\ erObjects = 0
  /\ varsLoads = 0
  /\ logins = 0
  /\ files = [n \in TmpNames |-> NoFile]
  /\ started = 0
  /\ pc = [t \in Threads |-> "idle"]
  /\ loc = [t \in Threads |-> InitLoc]
  /\ obs = [t \in Threads |-> InitObs]

\* ---------------------------------------------------------------- helpers
Goto(t, p) == pc' = [pc EXCEPT ![t] = p]

\* `return 0`, `return 1`, or an exception leaving the handler: the
\* invocation's local variables die with its frame.
Finish(t, o, how) ==
  /\ pc' = [pc EXCEPT ![t] = "done"]
  /\ obs' = [o EXCEPT ![t].outcome = how]
  /\ loc' = [loc EXCEPT ![t] = [InitLoc EXCEPT !.event = loc[t].event,
                                               !.data = loc[t].data]]

\* Every failure branch logs, then calls _get_error_reporting_client().
ToReport(t) == Goto(t, "report") /\ UNCHANGED loc

\* ------------------------------------------------------------- the handler
\* The platform invokes the handler with an event.
Invoke(t) ==
  /\ pc[t] \in {"idle", "done"}
  /\ started < MaxInvocations
  /\ started' = started + 1
  /\ \E e \in Events : loc' = [loc EXCEPT ![t] = [InitLoc EXCEPT !.event = e]]
  /\ obs' = [obs EXCEPT ![t] = InitObs]
  /\ Goto(t, "validate")
  /\ UNCHANGED globals

\* ValidateEvent returning 1 for a missing or null data without reporting.
ValidateEventSilent(t) ==
  /\ pc[t] = "validate"
  /\ IF loc[t].event.kind \in {"nodata", "null"}
     THEN Finish(t, obs, "ret1")
     ELSE Goto(t, "decode") /\ UNCHANGED << loc, obs >>
  /\ UNCHANGED << globals, started >>

\* Lines 93-110: event['data'] must exist and not be None.
ValidateEvent(t) ==
  /\ pc[t] = "validate"
  /\ IF loc[t].event.kind \in {"nodata", "null"}
     THEN ToReport(t)
     ELSE Goto(t, "decode") /\ UNCHANGED loc
  /\ UNCHANGED << globals, started, obs >>

\* Lines 113-118: json.loads(base64.b64decode(data_str).decode('utf-8')).
DecodePayload(t) ==
  /\ pc[t] = "decode"
  /\ IF loc[t].event.kind = "undecodable"
     THEN ToReport(t)
     ELSE /\ loc' = [loc EXCEPT ![t].data = loc[t].event.value]
          /\ Goto(t, "check_url")
  /\ UNCHANGED << globals, started, obs >>

\* Lines 121-125: if "url" not in data.
CheckUrl(t) ==
  /\ pc[t] = "check_url"
  /\ LET c == Contains("url", loc[t].data) IN
       CASE c = "TypeError" -> Finish(t, obs, "raised")
         [] c = "no"        -> ToReport(t) /\ UNCHANGED obs
         [] c = "yes"       -> Goto(t, "check_folder") /\ UNCHANGED << obs, loc >>
  /\ UNCHANGED << globals, started >>

\* Lines 126-128: if "folder" not in data: warning only.
CheckFolder(t) ==
  /\ pc[t] = "check_folder"
  /\ obs' = [obs EXCEPT ![t].warned = (Contains("folder", loc[t].data) = "no")]
  /\ Goto(t, "name")
  /\ UNCHANGED << globals, started, loc >>

\* Line 131: name = os.path.basename(urlparse(data['url']).path).
ComputeName(t) ==
  /\ pc[t] = "name"
  /\ IF Subscriptable(loc[t].data)
     THEN /\ loc' = [loc EXCEPT ![t].name = Basename(loc[t].data.url)]
          /\ Goto(t, "get")
          /\ UNCHANGED obs
     ELSE Finish(t, obs, "raised")
  /\ UNCHANGED << globals, started >>

\* HttpGet without the status check: any response body is kept.
HttpGetUnchecked(t) ==
  /\ pc[t] = "get"
  /\ LET o == [obs EXCEPT ![t].ops = @ \cup {"get"}] IN
       \/ Finish(t, o, "raised")
       \/ \E b \in Bodies, s \in {200, 404} :
            /\ loc' = [loc EXCEPT ![t].body = b]
            /\ obs' = [o EXCEPT ![t].status = s]
            /\ Goto(t, "tmp_open")
  /\ UNCHANGED << globals, started >>

\* Lines 132-134, 140-144: requests.get and the status check.
HttpGet(t) ==
  /\ pc[t] = "get"
  /\ LET o == [obs EXCEPT ![t].ops = @ \cup {"get"}] IN
       \/ \* a transport error: requests.get raises outside any try
          Finish(t, o, "raised")
       \/ \E b \in Bodies :
            /\ loc' = [loc EXCEPT ![t].body = b]
            /\ obs' = [o EXCEPT ![t].status = 200]
            /\ Goto(t, "tmp_open")
       \/ /\ obs' = [o EXCEPT ![t].status = 404]
          /\ ToReport(t)
  /\ UNCHANGED << globals, started >>

\* Line 135: fh = tempfile.NamedTemporaryFile('wb'): a new file under a
\* name no existing file has, deleted when closed.
TempOpen(t) ==
  /\ pc[t] = "tmp_open"
  /\ \/ /\ Finish(t, obs, "raised")
        /\ UNCHANGED files
     \/ \E n \in TmpNames :
          /\ files[n] = NoFile
          /\ files' = [files EXCEPT ![n] = Unflushed]
          /\ loc' = [loc EXCEPT ![t].fh = n]
          /\ Goto(t, "tmp_write")
          /\ UNCHANGED obs
  /\ UNCHANGED << megaVars, erVars, started >>

\* Line 136: fh.write(response.content): buffered, or written through.
TempWrite(t) ==
  /\ pc[t] = "tmp_write"
  /\ \E c \in {Unflushed, loc[t].body} :
       files' = [files EXCEPT ![loc[t].fh] = c]
  /\ Goto(t, "tmp_close")
  /\ UNCHANGED << megaVars, erVars, started, loc, obs >>

\* Lines 137-139: path = fh.name; fh.close() flushes the buffer and, the
\* file being a NamedTemporaryFile with delete=True, unlinks it.
TempClose(t) ==
  /\ pc[t] = "tmp_close"
  /\ loc' = [loc EXCEPT ![t].path = loc[t].fh, ![t].fh = "none"]
  /\ files' = [files EXCEPT ![loc[t].fh] = NoFile]
  /\ Goto(t, "resolve")
  /\ UNCHANGED << megaVars, erVars, started, obs >>

\* ResolveFolder looking the folder up whether or not the payload names one.
ResolveFolderAlways(t) ==
  /\ pc[t] = "resolve"
  /\ loc' = [loc EXCEPT ![t].folder = "None", ![t].site = "find_path_descriptor"]
  /\ Goto(t, "get_client")
  /\ UNCHANGED << globals, started, obs >>

\* Lines 148-150: folder = None; if 'folder' in data, the folder is looked
\* up first; if not, the next remote call is the upload.
ResolveFolder(t) ==
  /\ pc[t] = "resolve"
  /\ loc' = [loc EXCEPT ![t].folder = "None",
                        ![t].site = IF Contains("folder", loc[t].data) = "yes"
                                    THEN "find_path_descriptor" ELSE "upload"]
  /\ Goto(t, "get_client")
  /\ UNCHANGED << globals, started, obs >>

\* --------------------------------------------------------- _get_mega_client
\* An exception raised inside the try of lines 148-164 or 167-175 is logged
\* and reported; one raised by the rename step (lines 178-179) leaves the
\* handler.
Guarded == {"find_path_descriptor", "create_folder", "find_folder", "upload"}

Raise(t, o) ==
  LET r == [o EXCEPT ![t].raised = TRUE] IN
    IF loc[t].site \in Guarded
    THEN obs' = r /\ ToReport(t)
    ELSE Finish(t, r, "raised")

\* Lines 33-34: if _MEGA_CLIENT is not None: return _MEGA_CLIENT.
GetMegaClient(t) ==
  /\ pc[t] = "get_client"
  /\ IF MEGA_CLIENT # 0
     THEN /\ loc' = [loc EXCEPT ![t].client = MEGA_CLIENT]
          /\ Goto(t, "call")
     ELSE /\ Goto(t, "construct")
          /\ UNCHANGED loc
  /\ UNCHANGED << globals, started, obs >>

\* Line 35: _MEGA_CLIENT = Mega().
ConstructMega(t) ==
  /\ pc[t] = "construct"
  /\ megaObjects' = Append(megaObjects, FALSE)
  /\ MEGA_CLIENT' = Len(megaObjects) + 1
  /\ Goto(t, "load_vars")
  /\ UNCHANGED << erVars, varsLoads, logins, files, started, loc, obs >>

\* Lines 36-40: vars = _get_vars_dict(), re-raised when it fails.
LoadVars(t) ==
  /\ pc[t] = "load_vars"
  /\ LET o == [obs EXCEPT ![t].ops = @ \cup {"get_vars"}] IN
       \/ /\ varsLoads' = varsLoads + 1
          /\ obs' = o
          /\ Goto(t, "login")
          /\ UNCHANGED loc
       \/ /\ Raise(t, o)
          /\ UNCHANGED varsLoads
  /\ UNCHANGED << MEGA_CLIENT, megaObjects, logins, erVars, files, started >>

\* Lines 42-47: _MEGA_CLIENT.login(...), re-raised when it fails.
Login(t) ==
  /\ pc[t] = "login"
  /\ LET o == [obs EXCEPT ![t].ops = @ \cup {"login"}] IN
       \/ /\ megaObjects' = [megaObjects EXCEPT ![MEGA_CLIENT] = TRUE]
          /\ logins' = logins + 1
          /\ obs' = o
          /\ Goto(t, "return_client")
          /\ UNCHANGED loc
       \/ /\ Raise(t, o)
          /\ UNCHANGED << megaObjects, logins >>
  /\ UNCHANGED << MEGA_CLIENT, varsLoads, erVars, files, started >>

\* Line 49: return _MEGA_CLIENT.
ReturnMegaClient(t) ==
  /\ pc[t] = "return_client"
  /\ loc' = [loc EXCEPT ![t].client = MEGA_CLIENT]
  /\ Goto(t, "call")
  /\ UNCHANGED << globals, started, obs >>

\* ------------------------------------------------------- remote-storage calls
\* A call on the client _get_mega_client() returned.
Called(t) ==
  [obs EXCEPT ![t].ops = @ \cup {loc[t].site},
              ![t].loggedOutOp = @ \/ ~megaObjects[loc[t].client]]

At(t, site) == pc[t] = "call" /\ loc[t].site = site

Next_(t, site) ==
  /\ loc' = [loc EXCEPT ![t].site = site]
  /\ Goto(t, "get_client")

\* Lines 151-152: folder_str = find_path_descriptor(data['folder']).
FindPathDescriptor(t) ==
  /\ At(t, "find_path_descriptor")
  /\ \/ Raise(t, Called(t))
     \/ /\ obs' = [Called(t) EXCEPT ![t].lookup = "absent"]
        /\ Next_(t, "create_folder")
     \/ /\ obs' = [Called(t) EXCEPT ![t].lookup = "present"]
        /\ Next_(t, "find_folder")
  /\ UNCHANGED << globals, started >>

\* Line 153: create_folder(data['folder']).
CreateFolder(t) ==
  /\ At(t, "create_folder")
  /\ \/ Raise(t, Called(t))
     \/ /\ obs' = Called(t)
        /\ Next_(t, "find_folder")
  /\ UNCHANGED << globals, started >>

\* Lines 154 and 160: folder = find(data['folder']): an entry, or None.
FindFolder(t) ==
  /\ At(t, "find_folder")
  /\ \/ Raise(t, Called(t))
     \/ \E f \in {"entry", "None"} :
          /\ obs' = Called(t)
          /\ loc' = [loc EXCEPT ![t].folder = f, ![t].site = "upload"]
          /\ Goto(t, "get_client")
  /\ UNCHANGED << globals, started >>

\* Lines 167-175: upload(path, folder[0]) if folder, else upload(path).
\* The upload reads the local file at path and fails when there is none.
Upload(t) ==
  /\ At(t, "upload")
  /\ LET o == [Called(t) EXCEPT
                 ![t].target = IF loc[t].folder = "entry" THEN "folder" ELSE "root"] IN
       \/ Raise(t, o)
       \/ /\ files[loc[t].path] # NoFile
          /\ obs' = o
          /\ Next_(t, "find_file")
  /\ UNCHANGED << globals, started >>

\* Line 178: file_on_mega = find(os.path.basename(path)): an entry, or None.
FindFile(t) ==
  /\ At(t, "find_file")
  /\ \/ Raise(t, Called(t))
     \/ \E f \in {"entry", "None"} :
          /\ obs' = Called(t)
          /\ loc' = [loc EXCEPT ![t].file_on_mega = f, ![t].site = "rename"]
          /\ Goto(t, "get_client")
  /\ UNCHANGED << globals, started >>

\* Lines 179-181: rename(file_on_mega, name); return 0.  Renaming None
\* raises.
Rename(t) ==
  /\ At(t, "rename")
  /\ \/ Raise(t, Called(t))
     \/ /\ loc[t].file_on_mega = "entry"
        /\ Finish(t, [Called(t) EXCEPT ![t].renamed = loc[t].name], "ret0")
  /\ UNCHANGED << globals, started >>

\* ------------------------------------------------ _get_error_reporting_client
\* report(msg) or report_exception(), then return 1.
Reported(t) == [obs EXCEPT ![t].reports = @ + 1]

\* Lines 54-55: the client exists: report and return 1.
Report(t) ==
  /\ pc[t] = "report"
  /\ IF ERROR_REPORTING_CLIENT # 0
     THEN Finish(t, Reported(t), "ret1")
     ELSE Goto(t, "new_reporter") /\ UNCHANGED << obs, loc >>
  /\ UNCHANGED << globals, started >>

\* Lines 56-57: _ERROR_REPORTING_CLIENT = error_reporting.Client(); report
\* and return 1.
ConstructReporter(t) ==
  /\ pc[t] = "new_reporter"
  /\ erObjects' = erObjects + 1
  /\ ERROR_REPORTING_CLIENT' = erObjects + 1
  /\ Finish(t, Reported(t), "ret1")
  /\ UNCHANGED << megaVars, files, started >>

\* ------------------------------------------------------------ specification
Next ==
  \E t \in Threads :
    \/ Invoke(t)
    \/ ValidateEvent(t)
    \/ DecodePayload(t)
    \/ CheckUrl(t)
    \/ CheckFolder(t)
    \/ ComputeName(t)
    \/ HttpGet(t)
    \/ TempOpen(t)
    \/ TempWrite(t)
    \/ TempClose(t)
    \/ ResolveFolder(t)
    \/ GetMegaClient(t)
    \/ ConstructMega(t)
    \/ LoadVars(t)
    \/ Login(t)
    \/ ReturnMegaClient(t)
    \/ FindPathDescriptor(t)
    \/ CreateFolder(t)
    \/ FindFolder(t)
    \/ Upload(t)
    \/ FindFile(t)
    \/ Rename(t)
    \/ Report(t)
    \/ ConstructReporter(t)

Spec == Init /\ [][Next]_vars

TypeOK ==
  /\ MEGA_CLIENT \in 0..Len(megaObjects)
  /\ started \in 0..MaxInvocations
  /\ \A t \in Threads : obs[t].outcome \in {"none", "ret0", "ret1", "raised"}

\* ------------------------------------------------------------------ claims
Done(t) == pc[t] = "done"

Decoded(t) == loc[t].data.type # "none"

HasFolder(t) == Decoded(t) /\ Contains("folder", loc[t].data) = "yes"

HasUrlField(t) == loc[t].data.type = "object" /\ "url" \in loc[t].data.has

\* The calls made on the remote-storage account, and its login.
RemoteOps ==
  {"get_vars", "login", "find_path_descriptor", "create_folder",
   "find_folder", "upload", "find_file", "rename"}

FolderOps == {"find_path_descriptor", "create_folder", "find_folder"}

\* The thread is between resolving the folder and the return of upload().
BeforeUpload(t) ==
  /\ loc[t].site = "upload"
  /\ pc[t] \in {"get_client", "construct", "load_vars", "login", "return_client", "call"}

\* C1: every invocation ends by returning 0 or 1; no exception leaves the
\* handler, whatever the event and whatever the outbound calls do.
C1_ReturnsZeroOrOne ==
  \A t \in Threads : Done(t) => obs[t].outcome \in {"ret0", "ret1"}

\* C2: a failed credential load or login leaves nothing memoized: whenever
\* no thread is inside the initialization of _get_mega_client, the
\* memoized client, if any, is one whose login succeeded.
C2_NoCachedFailure ==
  (\A t \in Threads : pc[t] \notin {"load_vars", "login"})
    => (MEGA_CLIENT # 0 => megaObjects[MEGA_CLIENT])

\* C3: when the upload step is about to read the temporary file, the file
\* exists and holds the HTTP response body.
C3_TempFileAtUpload ==
  \A t \in Threads :
    (pc[t] = "call" /\ loc[t].site = "upload") => files[loc[t].path] = loc[t].body

\* C4: with a folder named and no remote call raising, create_folder is
\* called exactly when the lookup returned absent, the upload goes into the
\* named folder and never into the root, the entry is renamed to the
\* basename of the URL path, and the invocation returns 0.
C4_FolderScenario ==
  \A t \in Threads :
    (HasFolder(t) /\ ~obs[t].raised) =>
      /\ BeforeUpload(t) =>
           /\ loc[t].folder = "entry"
           /\ ("create_folder" \in obs[t].ops) <=> (obs[t].lookup = "absent")
      /\ "upload" \in obs[t].ops => obs[t].target = "folder"
      /\ (Done(t) /\ "rename" \in obs[t].ops) =>
           /\ obs[t].outcome = "ret0"
           /\ obs[t].renamed = Basename(loc[t].data.url)

\* C5: an invocation that returned 1 emitted exactly one error report, in
\* particular every one whose event has no data or a null data; none emits
\* more than one, and one that returned 0 emitted none.
C5_OneReportPerFailure ==
  \A t \in Threads :
    /\ obs[t].reports <= 1
    /\ obs[t].outcome = "ret1" => obs[t].reports = 1
    /\ obs[t].outcome = "ret0" => obs[t].reports = 0
    /\ (Done(t) /\ loc[t].event.kind \in {"nodata", "null"}) =>
         (obs[t].outcome = "ret1" /\ obs[t].reports = 1)

C5_Witness ==
  \E t \in Threads :
    /\ Done(t) /\ loc[t].event.kind = "null"
    /\ obs[t].outcome = "ret1" /\ obs[t].reports = 1

\* C6: after a response other than 200 the invocation returns 1 with one
\* error report and makes no remote-storage call; an upload is attempted
\* only after a 200 in the same invocation.
C6_Non200StopsWorkflow ==
  \A t \in Threads :
    /\ obs[t].status # 200 => obs[t].ops \cap RemoteOps = {}
    /\ (Done(t) /\ obs[t].status \notin {0, 200}) =>
         (obs[t].outcome = "ret1" /\ obs[t].reports = 1)
    /\ "upload" \in obs[t].ops => obs[t].status = 200

C6_Witness ==
  \E t \in Threads :
    /\ Done(t) /\ obs[t].status = 404
    /\ obs[t].outcome = "ret1" /\ obs[t].reports = 1
    /\ obs[t].ops = {"get"}

C8_NoUrlReturnsOne ==
  \A t \in Threads :
    (Decoded(t) /\ ~HasUrlField(t)) =>
      /\ obs[t].ops = {}
      /\ Done(t) => obs[t].outcome = "ret1"

\* C9: each process-wide singleton is constructed at most once, and the
\* credentials are loaded and a successful login performed at most once,
\* also when invocations interleave during first use.
C9_SingletonsOnce ==
  /\ Len(megaObjects) <= 1
  /\ erObjects <= 1
  /\ varsLoads <= 1
  /\ logins <= 1

\* C10: every client _get_mega_client returns is logged in, and no
\* remote-storage call is made on a client that is not.
C10_CallsOnLoggedInClient ==
  \A t \in Threads :
    /\ pc[t] = "call" => megaObjects[loc[t].client]
    /\ ~obs[t].loggedOutOp

====
